---- MODULE Spec2Model ----
(***************************************************************************)
(* Model of src/sandbox/nsjail.rs: the NSMount / NSSymlink / NSJail        *)
(* builder and the rendering of an NSJail into the argument list of an     *)
(* nsjail Command.                                                         *)
(*                                                                         *)
(* A path (PathBuf) is modelled by the string it was built from; the       *)
(* inputs are UTF-8 paths, on which Path::display() writes the path        *)
(* verbatim.  Strings are TLA+ strings, format!() is concatenation.        *)
(***************************************************************************)
EXTENDS Integers, Sequences, FiniteSets, TLC

\* Bounds of the exploration (not program constants).
MaxMounts == 2
MaxLinks == 1

\* Paths handed to the constructors as source: the empty path and an
\* ordinary absolute path.
SrcPaths == {"", "/usr"}

\* Paths handed to the constructors as destination: an ordinary absolute
\* path and a path that spells the argument terminator.
DestPaths == {"/usr", "--"}

\* (src, dest) pairs handed to symlink().
LinkInputs == {<<"/lib", "/lib64">>, <<"", "--">>}

VARIABLES
    pending,   \* the NSMount value the caller is building: <<>> or <<m>>
    calls,     \* the calls that built `pending`: <<>> or <<[ctor, src, dest, setter]>>
    jail,      \* the NSJail
    state,     \* "building" while the NSJail is owned by the caller, "rendered" once command(self) consumed it
    cmd,       \* the Command returned by command(): <<>> or <<c>>
    attached,  \* the NSMount values passed to mount(), in call order
    linked,    \* the NSSymlink values passed to symlink(), in call order
    mPending,  \* second run, same calls except mandatory()/not_mandatory(): its NSMount under construction
    mJail,     \* second run, same calls except mandatory()/not_mandatory(): its NSJail
    lJail      \* third run, same calls except symlink(): its NSJail

vars == <<pending, calls, jail, state, cmd, attached, linked, mPending, mJail, lJail>>

----------------------------------------------------------------------------
\* u64::to_string

Digit(d) ==
    CASE d = 0 -> "0" [] d = 1 -> "1" [] d = 2 -> "2" [] d = 3 -> "3" [] d = 4 -> "4"
      [] d = 5 -> "5" [] d = 6 -> "6" [] d = 7 -> "7" [] d = 8 -> "8" [] d = 9 -> "9"

RECURSIVE to_string(_)
to_string(n) ==
    IF n < 10 THEN Digit(n) ELSE to_string(n \div 10) \o Digit(n % 10)

\* Path::display on a UTF-8 path
display(p) == p

----------------------------------------------------------------------------
\* NSMount

\* bind() with the two paths stored in each other's field
bind_swapped(src, dest) ==
    [type |-> [kind |-> "BindMount", src |-> dest, dest |-> src],
     readwrite |-> TRUE,
     mandatory |-> TRUE]

bind(src, dest) ==
    [type |-> [kind |-> "BindMount", src |-> src, dest |-> dest],
     readwrite |-> TRUE,
     mandatory |-> TRUE]

readonly(src, dest) ==
    LET s == bind(src, dest) IN [s EXCEPT !.readwrite = FALSE]

temp(dest) ==
    [type |-> [kind |-> "TmpFs", dest |-> dest],
     readwrite |-> TRUE,
     mandatory |-> TRUE]

make_readonly(self) == [self EXCEPT !.readwrite = FALSE]

make_readwrite(self) == [self EXCEPT !.readwrite = TRUE]

mandatory(self) == [self EXCEPT !.mandatory = TRUE]

not_mandatory(self) == [self EXCEPT !.mandatory = FALSE]

\* to_write_arg() with the two bind flags exchanged
to_write_arg_flagsSwapped(self) ==
    IF self.type.kind = "BindMount"
    THEN LET map == display(self.type.src) \o ":" \o display(self.type.dest)
             arg == IF self.readwrite THEN "--bindmount_ro" ELSE "--bindmount"
         IN  <<arg, map>>
    ELSE <<"-m", "none:" \o display(self.type.dest) \o ":tmpfs:" \o "">>

\* to_write_arg() writing the writable flag of a tmpfs into its options field
to_write_arg_tmpfsOptions(self) ==
    IF self.type.kind = "BindMount"
    THEN LET map == display(self.type.src) \o ":" \o display(self.type.dest)
             arg == IF self.readwrite THEN "--bindmount" ELSE "--bindmount_ro"
         IN  <<arg, map>>
    ELSE <<"-m", "none:" \o display(self.type.dest) \o ":tmpfs:"
                 \o (IF self.readwrite THEN "" ELSE "ro")>>

\* to_write_arg() choosing the flag of an optional bind mount by its mandatory field
to_write_arg_mandatoryEncoded(self) ==
    IF self.type.kind = "BindMount"
    THEN LET map == display(self.type.src) \o ":" \o display(self.type.dest)
             arg == IF ~self.mandatory THEN "--bindmount_try"
                    ELSE IF self.readwrite THEN "--bindmount" ELSE "--bindmount_ro"
         IN  <<arg, map>>
    ELSE <<"-m", "none:" \o display(self.type.dest) \o ":tmpfs:" \o "">>

to_write_arg(self) ==
    IF self.type.kind = "BindMount"
    THEN LET map == display(self.type.src) \o ":" \o display(self.type.dest)
             arg == IF self.readwrite THEN "--bindmount" ELSE "--bindmount_ro"
         IN  <<arg, map>>
    ELSE <<"-m", "none:" \o display(self.type.dest) \o ":tmpfs:" \o "">>

----------------------------------------------------------------------------
\* NSSymlink

NSSymlink_new(src, dest) == [src |-> src, dest |-> dest]

\* impl Into<NSSymlink> for (src, dest)
into(pair) == NSSymlink_new(pair[1], pair[2])

----------------------------------------------------------------------------
\* NSJail

EmptyMap == [k \in {} |-> ""]

\* default() with the privileged user id
Default_root ==
    [mounts |-> <<>>,
     links |-> <<>>,
     env |-> EmptyMap,
     user |-> 0,
     group |-> 1000]

Default ==
    [mounts |-> <<>>,
     links |-> <<>>,
     env |-> EmptyMap,
     user |-> 1000,
     group |-> 1000]

\* the for_each over self.mounts of command(): two arguments per mount
RECURSIVE MountArgs(_)
MountArgs(mounts) ==
    IF mounts = <<>> THEN <<>>
    ELSE LET x == to_write_arg(Head(mounts))
         IN  <<x[1], x[2]>> \o MountArgs(Tail(mounts))

\* one argument pair per link, as a command() that rendered the links would emit
RECURSIVE LinkArgs(_)
LinkArgs(links) ==
    IF links = <<>> THEN <<>>
    ELSE <<"--symlink", display(Head(links).src) \o ":" \o display(Head(links).dest)>>
         \o LinkArgs(Tail(links))

\* command() without the "--keep_env" argument
command_noKeepEnv(self) ==
    [program |-> "/usr/bin/nsjail",
     args |-> <<"--user", to_string(self.user)>>
              \o <<"--group", to_string(self.group)>>
              \o MountArgs(self.mounts)
              \o <<"--">>,
     envs |-> self.env]

\* command() emitting the terminator before the mount arguments as well
command_earlyTerminator(self) ==
    [program |-> "/usr/bin/nsjail",
     args |-> <<"--user", to_string(self.user)>>
              \o <<"--group", to_string(self.group)>>
              \o <<"--">>
              \o MountArgs(self.mounts)
              \o <<"--keep_env">>
              \o <<"--">>,
     envs |-> self.env]

\* command() rendering the links after the mounts
command_linksRendered(self) ==
    [program |-> "/usr/bin/nsjail",
     args |-> <<"--user", to_string(self.user)>>
              \o <<"--group", to_string(self.group)>>
              \o MountArgs(self.mounts)
              \o LinkArgs(self.links)
              \o <<"--keep_env">>
              \o <<"--">>,
     envs |-> self.env]

command(self) ==
    [program |-> "/usr/bin/nsjail",
     args |-> <<"--user", to_string(self.user)>>
              \o <<"--group", to_string(self.group)>>
              \o MountArgs(self.mounts)
              \o <<"--keep_env">>
              \o <<"--">>,
     envs |-> self.env]

\* mount() inserting at the front of the list
mount_prepend(self, m) == [self EXCEPT !.mounts = <<m>> \o @]

mount(self, m) == [self EXCEPT !.mounts = Append(@, m)]

symlink(self, link) == [self EXCEPT !.links = Append(@, into(link))]

----------------------------------------------------------------------------
\* Initial state: let jail = NSJail::default(); no NSMount under construction.

Init ==
    /\ pending = <<>>
    /\ calls = <<>>
    /\ jail = Default
    /\ state = "building"
    /\ cmd = <<>>
    /\ attached = <<>>
    /\ linked = <<>>
    /\ mPending = <<>>
    /\ mJail = Default
    /\ lJail = Default

jailVars == <<jail, state, cmd, attached, linked, mJail, lJail>>

\* A constructor is called only while another mount still fits (exploration bound).
CanBuild == Len(attached) < MaxMounts

Bind(src, dest) ==
    /\ CanBuild
    /\ pending' = <<bind(src, dest)>>
    /\ mPending' = <<bind(src, dest)>>
    /\ calls' = <<[ctor |-> "bind", src |-> src, dest |-> dest, setter |-> "none"]>>
    /\ UNCHANGED jailVars

Readonly(src, dest) ==
    /\ CanBuild
    /\ pending' = <<readonly(src, dest)>>
    /\ mPending' = <<readonly(src, dest)>>
    /\ calls' = <<[ctor |-> "readonly", src |-> src, dest |-> dest, setter |-> "none"]>>
    /\ UNCHANGED jailVars

Temp(dest) ==
    /\ CanBuild
    /\ pending' = <<temp(dest)>>
    /\ mPending' = <<temp(dest)>>
    /\ calls' = <<[ctor |-> "temp", dest |-> dest, setter |-> "none"]>>
    /\ UNCHANGED jailVars

MakeReadonly ==
    /\ pending # <<>>
    /\ pending' = <<make_readonly(pending[1])>>
    /\ mPending' = <<make_readonly(mPending[1])>>
    /\ calls' = <<[calls[1] EXCEPT !.setter = "make_readonly"]>>
    /\ UNCHANGED jailVars

MakeReadwrite ==
    /\ pending # <<>>
    /\ pending' = <<make_readwrite(pending[1])>>
    /\ mPending' = <<make_readwrite(mPending[1])>>
    /\ calls' = <<[calls[1] EXCEPT !.setter = "make_readwrite"]>>
    /\ UNCHANGED jailVars

\* mandatory() / not_mandatory() on the first run's mount only
Mandatory ==
    /\ pending # <<>>
    /\ pending' = <<mandatory(pending[1])>>
    /\ UNCHANGED <<mPending, calls>>
    /\ UNCHANGED jailVars

NotMandatory ==
    /\ pending # <<>>
    /\ pending' = <<not_mandatory(pending[1])>>
    /\ UNCHANGED <<mPending, calls>>
    /\ UNCHANGED jailVars

\* mandatory() / not_mandatory() on the second run's mount only
TwinMandatory ==
    /\ mPending # <<>>
    /\ mPending' = <<mandatory(mPending[1])>>
    /\ UNCHANGED <<pending, calls>>
    /\ UNCHANGED jailVars

TwinNotMandatory ==
    /\ mPending # <<>>
    /\ mPending' = <<not_mandatory(mPending[1])>>
    /\ UNCHANGED <<pending, calls>>
    /\ UNCHANGED jailVars

\* jail.mount(m): takes `&mut self`, so the NSJail must not have been moved; the NSMount is moved in.
Mount ==
    /\ state = "building"
    /\ pending # <<>>
    /\ jail' = mount(jail, pending[1])
    /\ mJail' = mount(mJail, mPending[1])
    /\ lJail' = mount(lJail, pending[1])
    /\ attached' = Append(attached, pending[1])
    /\ pending' = <<>>
    /\ mPending' = <<>>
    /\ calls' = <<>>
    /\ UNCHANGED <<state, cmd, linked>>

\* jail.symlink(link) in the first and second run
Symlink(link) ==
    /\ state = "building"
    /\ Len(linked) < MaxLinks
    /\ jail' = symlink(jail, link)
    /\ mJail' = symlink(mJail, link)
    /\ linked' = Append(linked, into(link))
    /\ UNCHANGED <<pending, calls, mPending, state, cmd, attached, lJail>>

\* symlink(link) in the third run only
TwinSymlink(link) ==
    /\ state = "building"
    /\ Len(lJail.links) < MaxLinks
    /\ lJail' = symlink(lJail, link)
    /\ UNCHANGED <<pending, calls, mPending, jail, state, cmd, attached, linked, mJail>>

\* command() borrowing the NSJail instead of consuming it
Command_borrowing ==
    /\ state = "building"
    /\ cmd' = <<command(jail)>>
    /\ UNCHANGED <<pending, calls, mPending, jail, state, attached, linked, mJail, lJail>>

\* jail.command(): takes `self` by value, so the NSJail is moved into the call.
Command ==
    /\ state = "building"
    /\ cmd' = <<command(jail)>>
    /\ state' = "rendered"
    /\ UNCHANGED <<pending, calls, mPending, jail, attached, linked, mJail, lJail>>

Next ==
    \/ \E src \in SrcPaths, dest \in DestPaths : Bind(src, dest)
    \/ \E src \in SrcPaths, dest \in DestPaths : Readonly(src, dest)
    \/ \E dest \in DestPaths : Temp(dest)
    \/ MakeReadonly
    \/ MakeReadwrite
    \/ Mandatory
    \/ NotMandatory
    \/ Mount
    \/ \E link \in LinkInputs : Symlink(link)
    \/ Command

Spec == Init /\ [][Next]_vars

\* Two runs of the same calls whose mandatory()/not_mandatory() calls differ
\* arbitrarily (no symlink() call in either).
NextMandatory ==
    \/ \E src \in SrcPaths, dest \in DestPaths : Bind(src, dest)
    \/ \E src \in SrcPaths, dest \in DestPaths : Readonly(src, dest)
    \/ \E dest \in DestPaths : Temp(dest)
    \/ MakeReadonly
    \/ MakeReadwrite
    \/ Mandatory
    \/ NotMandatory
    \/ TwinMandatory
    \/ TwinNotMandatory
    \/ Mount
    \/ Command

SpecMandatory == Init /\ [][NextMandatory]_vars

\* Two runs of the same calls whose symlink() calls differ arbitrarily
\* (no mandatory()/not_mandatory() call in either).
NextLinks ==
    \/ \E src \in SrcPaths, dest \in DestPaths : Bind(src, dest)
    \/ \E src \in SrcPaths, dest \in DestPaths : Readonly(src, dest)
    \/ \E dest \in DestPaths : Temp(dest)
    \/ MakeReadonly
    \/ MakeReadwrite
    \/ Mount
    \/ \E link \in LinkInputs : Symlink(link)
    \/ \E link \in LinkInputs : TwinSymlink(link)
    \/ Command

SpecLinks == Init /\ [][NextLinks]_vars

----------------------------------------------------------------------------
\* Properties.

Rendered == state = "rendered"

\* the arguments of the Command returned by command()
Args == cmd[1].args

\* positions of the N-th mount's flag and value among the arguments
FlagAt(i) == Args[3 + 2 * i]
ValueAt(i) == Args[4 + 2 * i]

MountFlags == {"--bindmount", "--bindmount_ro", "-m"}

IsBind(m) == m.type.kind = "BindMount"
IsTmpFs(m) == m.type.kind = "TmpFs"

\* C1: the arguments of command() are "--user", the uid in decimal, "--group",
\* the gid in decimal, one (flag, value) pair per attached mount, "--keep_env"
\* and a final "--": 6 + 2n arguments for n attached mounts.
C1_ArgumentLayout ==
    Rendered =>
        LET n == Len(attached) IN
        /\ Len(Args) = 6 + 2 * n
        /\ Args[1] = "--user"
        /\ Args[2] = "1000"
        /\ Args[3] = "--group"
        /\ Args[4] = "1000"
        /\ \A i \in 1..n : FlagAt(i) \in MountFlags
        /\ Args[5 + 2 * n] = "--keep_env"
        /\ Args[6 + 2 * n] = "--"
        /\ (attached = <<bind("/usr", "/usr"), readonly("/usr", "/usr")>> =>
                Args = <<"--user", "1000", "--group", "1000",
                         "--bindmount", "/usr:/usr", "--bindmount_ro", "/usr:/usr",
                         "--keep_env", "--">>)

C1_Witness ==
    /\ Rendered
    /\ linked # <<>>
    /\ Args = <<"--user", "1000", "--group", "1000",
                "--bindmount", "/usr:/usr", "-m", "none:/usr:tmpfs:",
                "--keep_env", "--">>

\* what the external contract says one mount renders as
Rendering(m) ==
    IF IsBind(m)
    THEN <<IF m.readwrite THEN "--bindmount" ELSE "--bindmount_ro",
           m.type.src \o ":" \o m.type.dest>>
    ELSE <<"-m", "none:" \o m.type.dest \o ":tmpfs:">>

\* C2: the mounts held by the NSJail are exactly the mounts passed to mount(),
\* in call order, and the N-th pair of the mount section of the arguments is
\* the rendering of the N-th mount passed to mount().
C2_AttachmentOrder ==
    /\ jail.mounts = attached
    /\ Rendered =>
        /\ Len(Args) = 6 + 2 * Len(attached)
        /\ \A i \in 1..Len(attached) : <<FlagAt(i), ValueAt(i)>> = Rendering(attached[i])

\* two different mounts on the same destination, both rendered, in call order
C2_Witness ==
    /\ Rendered
    /\ Len(attached) = 2
    /\ attached[1].type.dest = attached[2].type.dest
    /\ Rendering(attached[1]) # Rendering(attached[2])
    /\ IsTmpFs(attached[1])
    /\ IsBind(attached[2])

\* the writable flag the calls that built the pending mount ask for
WritableAsked(c) ==
    IF c.setter = "make_readwrite" THEN TRUE
    ELSE IF c.setter = "make_readonly" THEN FALSE
    ELSE c.ctor # "readonly"

\* C3: a bind mount renders the value "<src>:<dest>", with "--bindmount" exactly
\* when it is writable and "--bindmount_ro" exactly when it is not; the flag of
\* a mount under construction is the one the last make_readonly() or
\* make_readwrite() call asks for, or the constructor's if there was none, and
\* its value is made of the constructor's paths.
C3_BindRendering ==
    /\ Rendered =>
        \A i \in 1..Len(attached) :
            IsBind(attached[i]) =>
                /\ ValueAt(i) = attached[i].type.src \o ":" \o attached[i].type.dest
                /\ (FlagAt(i) = "--bindmount") <=> attached[i].readwrite
                /\ (FlagAt(i) = "--bindmount_ro") <=> ~attached[i].readwrite
    /\ (pending # <<>> /\ calls[1].ctor \in {"bind", "readonly"}) =>
        /\ IsBind(pending[1])
        /\ pending[1].readwrite = WritableAsked(calls[1])
        /\ to_write_arg(pending[1]) =
              <<IF WritableAsked(calls[1]) THEN "--bindmount" ELSE "--bindmount_ro",
                calls[1].src \o ":" \o calls[1].dest>>

C3_Witness ==
    /\ Rendered
    /\ Len(attached) = 1
    /\ IsBind(attached[1])
    /\ ~attached[1].readwrite
    /\ FlagAt(1) = "--bindmount_ro"
    /\ pending # <<>>
    /\ calls[1].ctor = "readonly"
    /\ calls[1].setter = "make_readwrite"
    /\ ~pending[1].mandatory

\* C4: an ephemeral mount renders ("-m", "none:<dest>:tmpfs:") whatever its
\* writable and mandatory flags are, in the arguments of command() and while
\* it is under construction.
C4_TempRendering ==
    /\ Rendered =>
        \A i \in 1..Len(attached) :
            IsTmpFs(attached[i]) =>
                /\ FlagAt(i) = "-m"
                /\ ValueAt(i) = "none:" \o attached[i].type.dest \o ":tmpfs:"
    /\ (pending # <<>> /\ calls[1].ctor = "temp") =>
        /\ IsTmpFs(pending[1])
        /\ to_write_arg(pending[1]) = <<"-m", "none:" \o calls[1].dest \o ":tmpfs:">>

C4_Witness ==
    /\ Rendered
    /\ \E i \in 1..Len(attached) :
        /\ IsTmpFs(attached[i])
        /\ ~attached[i].readwrite
        /\ ~attached[i].mandatory
        /\ ValueAt(i) = "none:--:tmpfs:"

\* C5: user and group are 1000 and the environment is empty in every state,
\* the NSJail has no mount and no link before the first mount() or symlink()
\* call, and the arguments of command() begin "--user", "1000", "--group",
\* "1000".
C5_UnprivilegedIdentity ==
    /\ jail.user = 1000
    /\ jail.group = 1000
    /\ jail.env = EmptyMap
    /\ (attached = <<>> /\ linked = <<>>) => (jail.mounts = <<>> /\ jail.links = <<>>)
    /\ Rendered =>
        /\ SubSeq(Args, 1, 4) = <<"--user", "1000", "--group", "1000">>
        /\ Args[2] # "0"
        /\ Args[4] # "0"
        /\ cmd[1].envs = EmptyMap

C5_Witness ==
    /\ Rendered
    /\ Len(attached) = MaxMounts
    /\ Len(linked) = MaxLinks
    /\ Args[2] = "1000"

\* C6: "--" occurs exactly once among the arguments of command(), as the last
\* one, right after "--keep_env".
C6_TerminatorOnceAndLast ==
    Rendered =>
        /\ Args[Len(Args)] = "--"
        /\ Args[Len(Args) - 1] = "--keep_env"
        /\ Cardinality({i \in 1..Len(Args) : Args[i] = "--"}) = 1

\* rendered with every mount on the destination "--"
C6_Witness ==
    /\ Rendered
    /\ Len(attached) = MaxMounts
    /\ \A i \in 1..Len(attached) : attached[i].type.dest = "--"
    /\ \E i \in 1..Len(attached) : IsTmpFs(attached[i])
    /\ \E i \in 1..Len(attached) : IsBind(attached[i]) /\ attached[i].type.src = ""

\* C7: the NSJail is building or rendered; only a building NSJail changes, and
\* it stays building when it does; the only change of state is from building to
\* rendered, made by command(), which sets the returned Command to the
\* rendering of the NSJail; once rendered, the NSJail, its state and the
\* Command never change again.
C7_Lifecycle ==
    [][ /\ state \in {"building", "rendered"}
        /\ state' \in {"building", "rendered"}
        /\ (Rendered => UNCHANGED <<jail, state, cmd>>)
        /\ (jail' # jail => (state = "building" /\ state' = "building"))
        /\ (state' # state => /\ state = "building"
                              /\ state' = "rendered"
                              /\ jail' = jail
                              /\ cmd' = <<command(jail)>>)
        /\ (cmd' # cmd => (state = "building" /\ state' = "rendered"))
      ]_vars

\* a mount under construction after the NSJail was rendered
C7_Witness ==
    /\ Rendered
    /\ attached # <<>>
    /\ linked # <<>>
    /\ pending # <<>>
    /\ ~pending[1].readwrite

AllMounts ==
    {pending[i] : i \in 1..Len(pending)}
        \cup {attached[i] : i \in 1..Len(attached)}
        \cup {jail.mounts[i] : i \in 1..Len(jail.mounts)}

\* C8 as stated: every bind mount carries a non-empty source and a non-empty
\* destination, and every ephemeral mount only a destination.
C8_NonEmptyPaths ==
    \A m \in AllMounts :
        /\ IsBind(m) => (m.type.src # "" /\ m.type.dest # "")
        /\ IsTmpFs(m) => DOMAIN m.type = {"kind", "dest"}

\* C8 amended: every bind mount carries a source and a destination, which are
\* the paths its constructor was given (the empty path included), and every
\* ephemeral mount carries only a destination, the one temp() was given.
C8_PathsAsGiven ==
    /\ \A m \in AllMounts :
        /\ IsBind(m) \/ IsTmpFs(m)
        /\ IsBind(m) =>
            /\ DOMAIN m.type = {"kind", "src", "dest"}
            /\ m.type.src \in SrcPaths
            /\ m.type.dest \in DestPaths
        /\ IsTmpFs(m) =>
            /\ DOMAIN m.type = {"kind", "dest"}
            /\ m.type.dest \in DestPaths
    /\ pending # <<>> =>
        /\ IsBind(pending[1]) <=> calls[1].ctor \in {"bind", "readonly"}
        /\ IsBind(pending[1]) => pending[1].type.src = calls[1].src
        /\ pending[1].type.dest = calls[1].dest

\* a bind mount with an empty source attached next to an ephemeral mount
C8_Witness ==
    /\ Len(attached) = 2
    /\ IsBind(attached[1])
    /\ attached[1].type.src = ""
    /\ IsTmpFs(attached[2])

\* a mount with its mandatory field forced to TRUE
SansMandatory(m) == [m EXCEPT !.mandatory = TRUE]

\* C9: two runs of the same calls whose mandatory()/not_mandatory() calls differ
\* arbitrarily hold mounts that agree in everything but the mandatory field
\* and render the same arguments.
C9_MandatoryNotRendered ==
    /\ Len(pending) = Len(mPending)
    /\ pending # <<>> => SansMandatory(pending[1]) = SansMandatory(mPending[1])
    /\ Len(jail.mounts) = Len(mJail.mounts)
    /\ \A i \in 1..Len(jail.mounts) :
        SansMandatory(jail.mounts[i]) = SansMandatory(mJail.mounts[i])
    /\ command(jail).args = command(mJail).args
    /\ Rendered => Args = command(mJail).args

\* rendered, the two runs disagreeing on the mandatory field of both mounts
C9_Witness ==
    /\ Rendered
    /\ Len(attached) = 2
    /\ IsBind(attached[1])
    /\ jail.mounts[1].mandatory
    /\ ~mJail.mounts[1].mandatory
    /\ ~jail.mounts[2].mandatory
    /\ mJail.mounts[2].mandatory

\* C10: symlink() appends its link to the links and changes nothing else of
\* the NSJail, and two runs of the same calls whose symlink() calls differ
\* arbitrarily render the same arguments, which hold nothing but the identity,
\* the mounts, "--keep_env" and "--".
C10_LinksNotRendered ==
    /\ jail.links = linked
    /\ jail.mounts = lJail.mounts
    /\ jail.env = lJail.env
    /\ jail.user = lJail.user
    /\ jail.group = lJail.group
    /\ command(jail) = command(lJail)
    /\ Rendered =>
        /\ cmd[1] = command(lJail)
        /\ Len(Args) = 6 + 2 * Len(attached)

\* rendered with mounts, the two runs holding different links
C10_Witness ==
    /\ Rendered
    /\ attached # <<>>
    /\ jail.links # <<>>
    /\ lJail.links # <<>>
    /\ jail.links # lJail.links

====
